---- MODULE Spec2Model ----
(***************************************************************************)
(* Model of inventory_system.py: the module-level dict stock_data, the     *)
(* operations add_item, remove_item, get_qty, check_low_items, load_data   *)
(* and save_data, the JSON file they persist to, and the caller's log list.*)
(*                                                                         *)
(* Python values are records [t, n, s]: t is the runtime type, n the       *)
(* number and s the text.  A float is held in halves (n = 3 is 1.5) so     *)
(* that int()'s truncation toward zero is computed, not assumed.           *)
(***************************************************************************)
EXTENDS Integers, Sequences, FiniteSets, TLC

VARIABLES
    stock_data,   \* the module-level dict: a function from its keys to ints
    file,         \* what is on disk at the path load_data/save_data use
    logs,         \* the list a caller hands to add_item as `logs`
    last,         \* the last call: its arguments and what the caller got back
    added         \* per item: the sum of the quantities added since it was absent

vars == <<stock_data, file, logs, last, added>>

----------------------------------------------------------------------------
\* Bounds of the model.

\* largest quantity a caller passes to add_item / remove_item
MaxQty == 2
\* add_item is not called once it would take an item above this
MaxStock == 2
\* longest log list followed
MaxLog == 2

----------------------------------------------------------------------------
\* Python values.

PyInt(n) == [t |-> "int", n |-> n, s |-> ""]
PyStr(s) == [t |-> "str", n |-> 0, s |-> s]
PyFloat(halves) == [t |-> "float", n |-> halves, s |-> ""]
PyTrue == [t |-> "bool", n |-> 1, s |-> ""]
PyNone == [t |-> "none", n |-> 0, s |-> ""]
PyInf == [t |-> "inf", n |-> 0, s |-> ""]
PyNaN == [t |-> "nan", n |-> 0, s |-> ""]

\* isinstance(x, int): bool is a subclass of int
IsInt(x) == x.t \in {"int", "bool"}

\* isinstance(x, str)
IsStr(x) == x.t = "str"

\* `not isinstance(item, str) or not item`
BadItem(item) == ~IsStr(item) \/ item.s = ""

\* The strings int() parses, with their values; every other string raises
\* ValueError.
IntLiterals == {<<"0", 0>>, <<"1", 1>>, <<"2", 2>>, <<"3", 3>>, <<"-1", -1>>}

\* int(val) as load_data calls it: [exc |-> "" and the integer, or the
\* exception raised]
IntOf(val) ==
    CASE val.t \in {"int", "bool"} -> [exc |-> "", n |-> val.n]
      [] val.t = "float" ->
            [exc |-> "",
             n |-> IF val.n >= 0 THEN val.n \div 2 ELSE -((-val.n) \div 2)]
      [] val.t = "str" ->
            IF \E p \in IntLiterals : p[1] = val.s
            THEN [exc |-> "", n |-> (CHOOSE p \in IntLiterals : p[1] = val.s)[2]]
            ELSE [exc |-> "ValueError", n |-> 0]
      [] val.t = "nan" -> [exc |-> "ValueError", n |-> 0]
      [] val.t = "inf" -> [exc |-> "OverflowError", n |-> 0]
      [] OTHER -> [exc |-> "TypeError", n |-> 0]

----------------------------------------------------------------------------
\* dict operations on stock_data.

\* stock_data.get(item, 0)
DictGet(d, k) == IF k \in DOMAIN d THEN d[k] ELSE 0

\* d[k] = v
DictSet(d, k, v) == [x \in DOMAIN d \cup {k} |-> IF x = k THEN v ELSE d[x]]

\* del d[k]
DictDel(d, k) == [x \in DOMAIN d \ {k} |-> d[x]]

EmptyDict == [x \in {} |-> 0]

\* The item names followed, in the lexicographic order sorted() gives them.
Names == <<"", "a", "b">>

\* sorted(keys)
SortedKeys(S) == SelectSeq(Names, LAMBDA k : k \in S)

\* The orders in which a dict with key set S can list its keys (insertion
\* order, which the model does not follow: every order is allowed).
KeyOrders(S) ==
    {q \in [1..Cardinality(S) -> S] : {q[i] : i \in 1..Cardinality(S)} = S}

----------------------------------------------------------------------------
\* The JSON file.  kind is "missing" (no such file), "undecodable" (bytes
\* that are not UTF-8), "malformed" (text that is not JSON), "value" (JSON
\* whose top level is not an object) or "object"; entries is the object's
\* members in file order, each [k |-> key, v |-> value].

NoFile == [kind |-> "missing", entries |-> <<>>]
JsonObject(entries) == [kind |-> "object", entries |-> entries]

\* json.dump(stock_data, file, indent=2, sort_keys=True)
JsonDump(d) ==
    LET keys == SortedKeys(DOMAIN d)
    IN  JsonObject([i \in 1..Len(keys) |->
                      [k |-> PyStr(keys[i]), v |-> PyInt(d[keys[i]])]])

\* json.load of an object: a dict of its members, a repeated key keeping its
\* last value.
JsonLoad(entries) ==
    LET keys == {entries[i].k : i \in 1..Len(entries)}
        lastAt(k) == CHOOSE i \in 1..Len(entries) :
                        /\ entries[i].k = k
                        /\ \A j \in 1..Len(entries) : entries[j].k = k => j <= i
    IN  [k \in keys |-> entries[lastAt(k)].v]

\* As KeepsEntry, without the `quantity < 0` test.
KeepsEntryAnySign(key, val) ==
    /\ IsStr(key)
    /\ IntOf(val).exc = ""

\* As KeepsEntry, with `quantity <= 0` for `quantity < 0`.
KeepsEntryPositive(key, val) ==
    /\ IsStr(key)
    /\ IntOf(val).exc = ""
    /\ IntOf(val).n > 0

\* The loop of load_data over data.items(): the entries it keeps.
KeepsEntry(key, val) ==
    /\ IsStr(key)
    /\ IntOf(val).exc = ""
    /\ IntOf(val).n >= 0

\* int(val) raises something load_data's `except (TypeError, ValueError)`
\* does not catch.
LoopRaises(data) ==
    \E key \in DOMAIN data :
        IsStr(key) /\ IntOf(data[key]).exc \notin {"", "TypeError", "ValueError"}

\* The dict `sanitized` at the end of the loop.
Sanitized(data) ==
    LET kept == {key \in DOMAIN data : KeepsEntry(key, data[key])}
    IN  [k \in {key.s : key \in kept} |-> IntOf(data[PyStr(k)]).n]

----------------------------------------------------------------------------
\* Calls and what they give back.

\* A call, before its outcome is known.
Call(op, item, qty, sink) ==
    [op |-> op, item |-> item, qty |-> qty, sink |-> sink,
     exc |-> "", ret |-> "None", val |-> 0, items |-> <<>>, diag |-> ""]

Raises(call, exc) == [call EXCEPT !.exc = exc, !.ret = ""]

\* As ArgError, without the `qty < 0` test.
ArgErrorAnySign(item, qty) ==
    IF BadItem(item) THEN "TypeError"
    ELSE IF ~IsInt(qty) THEN "TypeError"
    ELSE ""

\* The checks add_item and remove_item open with: the exception raised, or
\* "" when the arguments pass.
ArgError(item, qty) ==
    IF BadItem(item) THEN "TypeError"
    ELSE IF ~IsInt(qty) THEN "TypeError"
    ELSE IF qty.n < 0 THEN "ValueError"
    ELSE ""

\* As AddToStock, with `stock_data[item] = qty`.
AddToStockOverwrites(d, item, qty) == DictSet(d, item, qty)

\* stock_data after `stock_data[item] = stock_data.get(item, 0) + qty`
AddToStock(d, item, qty) == DictSet(d, item, DictGet(d, item) + qty)

\* The text add_item appends to logs, after the clock's timestamp.
LogEntry(item, qty) == [item |-> item.s, qty |-> qty]

\* As AppendLog, with logs.insert(0, ...).
PrependLog(l, item, qty) == <<LogEntry(item, qty)>> \o l

\* logs.append(...)
AppendLog(l, item, qty) == Append(l, LogEntry(item, qty))

AddItem(item, qty, sink) ==
    LET call == Call("add_item", item, qty, sink)
        err == ArgError(item, qty)
    IN  IF err # ""
        THEN /\ last' = Raises(call, err)
             /\ UNCHANGED <<stock_data, logs, file>>
        ELSE /\ stock_data' = AddToStock(stock_data, item.s, qty.n)
             /\ logs' = IF sink THEN AppendLog(logs, item, qty) ELSE logs
             /\ last' = [call EXCEPT !.diag = "info:added"]
             /\ UNCHANGED file

\* As RemoveFromStock, with `qty > stock_data[item]`.
RemoveFromStockStrict(d, item, qty) ==
    IF qty > d[item] THEN DictDel(d, item) ELSE DictSet(d, item, d[item] - qty)

\* stock_data after the if/else of remove_item, for an item that is a key
RemoveFromStock(d, item, qty) ==
    IF qty >= d[item] THEN DictDel(d, item) ELSE DictSet(d, item, d[item] - qty)

\* As RemoveItem, without the `item not in stock_data` test: a missing item
\* is taken to hold 0.
RemoveItemNoLookup(item, qty) ==
    LET call == Call("remove_item", item, qty, FALSE)
        err == ArgError(item, qty)
    IN  IF err # ""
        THEN /\ last' = Raises(call, err)
             /\ UNCHANGED <<stock_data, logs, file>>
        ELSE /\ stock_data' =
                    IF qty.n >= DictGet(stock_data, item.s)
                    THEN DictDel(stock_data, item.s)
                    ELSE DictSet(stock_data, item.s, stock_data[item.s] - qty.n)
             /\ last' = [call EXCEPT !.ret = "True", !.diag = "info:removed"]
             /\ UNCHANGED <<logs, file>>

RemoveItem(item, qty) ==
    LET call == Call("remove_item", item, qty, FALSE)
        err == ArgError(item, qty)
    IN  IF err # ""
        THEN /\ last' = Raises(call, err)
             /\ UNCHANGED <<stock_data, logs, file>>
        ELSE IF item.s \notin DOMAIN stock_data
        THEN /\ last' = [call EXCEPT !.ret = "False", !.diag = "warning:not found"]
             /\ UNCHANGED <<stock_data, logs, file>>
        ELSE /\ stock_data' = RemoveFromStock(stock_data, item.s, qty.n)
             /\ last' = [call EXCEPT !.ret = "True", !.diag = "info:removed"]
             /\ UNCHANGED <<logs, file>>

GetQty(item) ==
    LET call == Call("get_qty", item, PyNone, FALSE)
    IN  /\ last' = IF BadItem(item)
                   THEN Raises(call, "TypeError")
                   ELSE [call EXCEPT !.ret = "int",
                                     !.val = DictGet(stock_data, item.s)]
        /\ UNCHANGED <<stock_data, logs, file>>

\* As LowItems, with `qty <= threshold`.
LowItemsInclusive(d, threshold) == {item \in DOMAIN d : d[item] <= threshold}

\* The items the comprehension of check_low_items keeps.
LowItems(d, threshold) == {item \in DOMAIN d : d[item] < threshold}

CheckLowItems(threshold) ==
    LET call == Call("check_low_items", PyNone, threshold, FALSE)
    IN  /\ IF ~IsInt(threshold) THEN last' = Raises(call, "TypeError")
           ELSE IF threshold.n < 0 THEN last' = Raises(call, "ValueError")
           ELSE \E order \in KeyOrders(LowItems(stock_data, threshold.n)) :
                    last' = [call EXCEPT !.ret = "list", !.items = order]
        /\ UNCHANGED <<stock_data, logs, file>>

\* What the try block of load_data ends with: the exception raised, or ""
\* when json.load returned.  io_fails: open() or read() fails with an
\* OSError other than FileNotFoundError (the operating system decides).
ReadError(f, io_fails) ==
    IF f.kind = "missing" THEN "FileNotFoundError"
    ELSE IF io_fails THEN "OSError"
    ELSE IF f.kind = "undecodable" THEN "UnicodeDecodeError"
    ELSE IF f.kind = "malformed" THEN "JSONDecodeError"
    ELSE ""

\* The three except clauses of load_data, and what each logs.
CaughtOnRead ==
    [FileNotFoundError |-> "info:not found",
     JSONDecodeError |-> "error:parse",
     OSError |-> "error:io"]

\* As LoadData, with stock_data.clear() moved to the top of the function.
LoadDataClearsFirst(io_fails) ==
    LET call == Call("load_data", PyNone, PyNone, FALSE)
        err == ReadError(file, io_fails)
        data == JsonLoad(file.entries)
    IN  /\ UNCHANGED <<logs, file>>
        /\ IF err \in DOMAIN CaughtOnRead
           THEN /\ last' = [call EXCEPT !.diag = CaughtOnRead[err]]
                /\ stock_data' = EmptyDict
           ELSE IF err # ""
           THEN /\ last' = Raises(call, err)
                /\ stock_data' = EmptyDict
           ELSE IF file.kind # "object"
           THEN /\ last' = [call EXCEPT !.diag = "error:format"]
                /\ stock_data' = EmptyDict
           ELSE IF LoopRaises(data)
           THEN /\ last' = Raises(call, "OverflowError")
                /\ stock_data' = EmptyDict
           ELSE /\ stock_data' = Sanitized(data)
                /\ last' = [call EXCEPT !.diag = "info:loaded"]

LoadData(io_fails) ==
    LET call == Call("load_data", PyNone, PyNone, FALSE)
        err == ReadError(file, io_fails)
        data == JsonLoad(file.entries)
    IN  /\ UNCHANGED <<logs, file>>
        /\ IF err \in DOMAIN CaughtOnRead
           THEN /\ last' = [call EXCEPT !.diag = CaughtOnRead[err]]
                /\ UNCHANGED stock_data
           ELSE IF err # ""
           THEN /\ last' = Raises(call, err)
                /\ UNCHANGED stock_data
           ELSE IF file.kind # "object"
           THEN /\ last' = [call EXCEPT !.diag = "error:format"]
                /\ UNCHANGED stock_data
           ELSE IF LoopRaises(data)
           THEN /\ last' = Raises(call, "OverflowError")
                /\ UNCHANGED stock_data
           ELSE /\ stock_data' = Sanitized(data)
                /\ last' = [call EXCEPT !.diag = "info:loaded"]

\* What a failed save can leave on disk: open() failed and the file is as it
\* was, or open(path, "w") truncated it and the write failed part-way.
AfterFailedSave(f) == {f, [kind |-> "malformed", entries |-> <<>>]}

\* save_data.  io_fails: open() or write() fails with an OSError.
SaveData(io_fails) ==
    LET call == Call("save_data", PyNone, PyNone, FALSE)
    IN  /\ UNCHANGED <<stock_data, logs>>
        /\ IF io_fails
           THEN /\ file' \in AfterFailedSave(file)
                /\ last' = [call EXCEPT !.diag = "error:save"]
           ELSE /\ file' = JsonDump(stock_data)
                /\ last' = [call EXCEPT !.diag = "info:saved"]

\* Another program (or the operator) puts `content` at the path.
ExternalWrite(content) ==
    /\ file' = content
    /\ last' = Call("external", PyNone, PyNone, FALSE)
    /\ UNCHANGED <<stock_data, logs>>

----------------------------------------------------------------------------
\* Inputs.

\* item arguments: the empty string, two names, and a non-string
ItemArgs == {PyStr(""), PyStr("a"), PyStr("b"), PyInt(1)}

ValidItems == {PyStr("a"), PyStr("b")}

\* qty arguments: integers from -1, True, a string and the float 1.0
QtyArgs == {PyInt(n) : n \in -1..MaxQty} \cup {PyTrue, PyStr("1"), PyFloat(2)}

ValidQtys == {PyInt(n) : n \in 0..MaxQty}

\* threshold arguments
ValidThresholds == {PyInt(n) : n \in 0..(MaxStock + 1)}

\* The arguments of the calls followed beside a log list: the empty string, a
\* name and a non-string; -1, 1, True and a string.
LogItemArgs == {PyStr(""), PyStr("a"), PyInt(1)}

LogQtyArgs == {PyInt(-1), PyInt(1), PyTrue, PyStr("1")}

LogThresholdArgs == {PyInt(-1), PyInt(1), PyStr("1")}

\* JSON values of a file written by another program: -1, 0, 2, "bad", "1",
\* 1.5, -0.5, null, true, Infinity
JsonValues ==
    {PyInt(-1), PyInt(0), PyInt(2), PyStr("bad"), PyStr("1"), PyFloat(3),
     PyFloat(-1), PyNone, PyTrue, PyInf}

JsonMembers == {[k |-> PyStr(k), v |-> v] : k \in {"", "a"}, v \in JsonValues}

\* Files with more members: the three kinds of entry load_data skips, a
\* repeated key, and a NaN.
LongerFiles ==
    {JsonObject(<<[k |-> PyStr("a"), v |-> PyInt(-1)],
                  [k |-> PyStr("b"), v |-> PyStr("bad")],
                  [k |-> PyStr(""), v |-> PyNone]>>),
     JsonObject(<<[k |-> PyStr("a"), v |-> PyInt(2)],
                  [k |-> PyStr("a"), v |-> PyInt(1)]>>),
     JsonObject(<<[k |-> PyStr("a"), v |-> PyNaN],
                  [k |-> PyStr("b"), v |-> PyInt(1)]>>)}

\* What another program can leave at the path: no file, bytes that are not
\* text, text that is not JSON, JSON that is no object, the empty object, an
\* object of one member, or one of LongerFiles.
ExternalFiles ==
    {JsonObject(<<>>)}
    \cup {JsonObject(<<m>>) : m \in JsonMembers}
    \cup LongerFiles
    \cup {[kind |-> k, entries |-> <<>>] :
            k \in {"missing", "undecodable", "malformed", "value"}}

----------------------------------------------------------------------------
\* The program: stock_data starts empty; any call may follow any call.

Init ==
    /\ stock_data = EmptyDict
    /\ file = NoFile
    /\ logs = <<>>
    /\ last = Call("start", PyNone, PyNone, FALSE)
    /\ added = [k \in {"a", "b"} |-> 0]

\* add_item is followed while the item stays within MaxStock and the log
\* within MaxLog.
InBounds(item, qty, sink) ==
    /\ (ArgError(item, qty) = "" =>
            DictGet(stock_data, item.s) + qty.n <= MaxStock)
    /\ (sink => Len(logs) < MaxLog)

AddCalls(items, qtys, sinks) ==
    \E item \in items, qty \in qtys, sink \in sinks :
        InBounds(item, qty, sink) /\ AddItem(item, qty, sink) /\ UNCHANGED added

RemoveCalls(items, qtys) ==
    \E item \in items, qty \in qtys : RemoveItem(item, qty) /\ UNCHANGED added

GetCalls(items) == \E item \in items : GetQty(item) /\ UNCHANGED added

LowCalls(thresholds) ==
    \E threshold \in thresholds : CheckLowItems(threshold) /\ UNCHANGED added

Load == \E io_fails \in BOOLEAN : LoadData(io_fails) /\ UNCHANGED added

Save == \E io_fails \in BOOLEAN : SaveData(io_fails) /\ UNCHANGED added

External == \E content \in ExternalFiles : ExternalWrite(content) /\ UNCHANGED added

\* add_item with the sum of what was added kept beside it.
TalliedAdds(items, qtys) ==
    \E item \in items, qty \in qtys :
        /\ InBounds(item, qty, FALSE)
        /\ AddItem(item, qty, FALSE)
        /\ added' = IF ArgError(item, qty) = ""
                    THEN [added EXCEPT ![item.s] = @ + qty.n]
                    ELSE added

\* Valid calls, the file, and other programs writing the file.
Next ==
    \/ AddCalls(ValidItems, ValidQtys, {FALSE})
    \/ RemoveCalls(ValidItems, ValidQtys)
    \/ GetCalls(ValidItems)
    \/ LowCalls(ValidThresholds)
    \/ Load
    \/ Save
    \/ External

Spec == Init /\ [][Next]_vars

\* Calls of add_item and get_qty alone, with every kind of argument.
NextAdd ==
    \/ TalliedAdds(ItemArgs, QtyArgs)
    \/ GetCalls(ItemArgs)

SpecAdd == Init /\ [][NextAdd]_vars

\* Calls with every kind of argument and with or without a log list; the
\* file holds only what save_data wrote.
NextLog ==
    \/ AddCalls(LogItemArgs, LogQtyArgs, BOOLEAN)
    \/ RemoveCalls(LogItemArgs, LogQtyArgs)
    \/ GetCalls(LogItemArgs)
    \/ LowCalls(LogThresholdArgs)
    \/ Load
    \/ Save

SpecLog == Init /\ [][NextLog]_vars

----------------------------------------------------------------------------
\* Properties.

Max(x, y) == IF x >= y THEN x ELSE y

\* dicts d and e agree on every key but k
SameButFor(d, e, k) ==
    /\ DOMAIN d \ {k} = DOMAIN e \ {k}
    /\ \A x \in DOMAIN d \ {k} : d[x] = e[x]

\* C1, as the specification states it: in every state reachable by add,
\* remove and load, no entry of the stock map has quantity 0 or negative.
NoZeroOrNegativeEntry == \A k \in DOMAIN stock_data : stock_data[k] > 0

\* C1, amended: no entry of the stock map has a negative quantity, and
\* remove never leaves the item it removed from with quantity 0 or below (it
\* deletes the entry); an entry of quantity 0 can be stored by add and load.
NoNegativeEntry ==
    /\ \A k \in DOMAIN stock_data : stock_data[k] >= 0
    /\ (last.op = "remove_item" /\ last.ret = "True"
            /\ last.item.s \in DOMAIN stock_data)
        => stock_data[last.item.s] > 0

\* A load has stored an entry of quantity 0 beside a positive one.
ZeroEntryLoaded ==
    /\ last.op = "load_data" /\ last.diag = "info:loaded"
    /\ \E k \in DOMAIN stock_data : stock_data[k] = 0
    /\ \E k \in DOMAIN stock_data : stock_data[k] > 0

\* C2: after adds alone, from a map without the item, get_qty(item) is the
\* sum of the quantities added for it; an add creates the entry and changes
\* no other item (each item holds its own sum, an item never added is absent).
AddsSumUp ==
    /\ \A k \in DOMAIN added :
          /\ DictGet(stock_data, k) = added[k]
          /\ (k \in DOMAIN stock_data \/ added[k] = 0)
    /\ DOMAIN stock_data \subseteq DOMAIN added
    /\ (last.op = "add_item" /\ last.exc = "") => last.item.s \in DOMAIN stock_data
    /\ (last.op = "get_qty" /\ last.exc = "") => last.val = added[last.item.s]

\* get_qty has returned a sum of two adds for one item while the other item
\* holds its own.
SumQueried ==
    /\ last.op = "get_qty" /\ last.exc = "" /\ last.val = 2
    /\ \E k \in DOMAIN stock_data : k # last.item.s /\ stock_data[k] = 1

\* C3: remove(item, qty) of an item stored with quantity s returns True and
\* leaves get_qty(item) = max(s - qty, 0): the entry is deleted when
\* qty >= s and holds s - qty otherwise; no other entry changes.
RemoveFloorsAtZero ==
    [][(last'.op = "remove_item" /\ last'.exc = ""
            /\ last'.item.s \in DOMAIN stock_data)
        => LET item == last'.item.s
               s == stock_data[item]
               qty == last'.qty.n
           IN  /\ last'.ret = "True"
               /\ DictGet(stock_data', item) = Max(s - qty, 0)
               /\ (qty >= s => item \notin DOMAIN stock_data')
               /\ (qty < s => item \in DOMAIN stock_data'
                                /\ stock_data'[item] = s - qty)
               /\ SameButFor(stock_data, stock_data', item)]_vars

\* A remove has taken 1 from an item and left it with 1, beside another item.
PartlyRemoved ==
    /\ last.op = "remove_item" /\ last.ret = "True" /\ last.qty.n = 1
    /\ last.item.s \in DOMAIN stock_data
    /\ stock_data[last.item.s] = 1
    /\ Cardinality(DOMAIN stock_data) > 1

\* C4: remove(item, qty) with valid arguments of an item that is no key of
\* the stock map returns False and leaves the map as it was.
RemoveAbsentIsNoOp ==
    [][(last'.op = "remove_item" /\ last'.exc = ""
            /\ last'.item.s \notin DOMAIN stock_data)
        => (last'.ret = "False" /\ stock_data' = stock_data)]_vars

\* A remove of an absent item has returned False on a map that is not empty.
AbsentRemoved ==
    /\ last.op = "remove_item" /\ last.ret = "False"
    /\ last.item.s \notin DOMAIN stock_data
    /\ stock_data # EmptyDict

\* C5: a successful save followed at once by a load of the same path (that
\* the operating system lets read) ends loaded, raises nothing, and leaves
\* the stock map with the keys and quantities it had before the save.
SaveLoadRoundTrip ==
    [][(last.op = "save_data" /\ last.diag = "info:saved"
            /\ last'.op = "load_data" /\ last'.diag # "error:io")
        => /\ last'.diag = "info:loaded"
           /\ last'.exc = ""
           /\ stock_data' = stock_data]_vars

\* A load has read back the file save wrote for a map of two entries, one of
\* them of quantity 0.
RoundTripped ==
    /\ last.op = "load_data" /\ last.diag = "info:loaded"
    /\ file = JsonDump(stock_data)
    /\ Cardinality(DOMAIN stock_data) > 1
    /\ \E k \in DOMAIN stock_data : stock_data[k] = 0

ValidMembers(data) ==
    LET ok == {key \in DOMAIN data :
                  /\ key.t = "str" /\ key.s # ""
                  /\ IntOf(data[key]).exc = ""
                  /\ IntOf(data[key]).n >= 0}
    IN  [k \in {key.s : key \in ok} |-> IntOf(data[PyStr(k)]).n]

\* C7: a load of a JSON object (that the operating system lets read) ends
\* loaded and leaves in the stock map exactly the file's valid entries: a
\* member with an empty key, or a value that is no non-negative integer, is
\* skipped.
LoadKeepsValidOnly ==
    (last.op = "load_data" /\ file.kind = "object" /\ last.diag # "error:io")
        => /\ last.exc = ""
           /\ last.diag = "info:loaded"
           /\ stock_data = ValidMembers(JsonLoad(file.entries))

\* What C8 calls an invalid argument: item empty or not text, qty negative
\* or not an integer (True is an integer: bool is a subclass of int).
InvalidArgument(item, qty) ==
    \/ item.t # "str"
    \/ item.s = ""
    \/ qty.t \notin {"int", "bool"}
    \/ qty.n < 0

\* C8: add and remove with an invalid argument raise TypeError or
\* ValueError, return nothing, and change neither the stock map nor the log.
InvalidCallIsNoOp ==
    [][(last'.op \in {"add_item", "remove_item"}
            /\ InvalidArgument(last'.item, last'.qty))
        => /\ last'.exc \in {"TypeError", "ValueError"}
           /\ last'.ret = ""
           /\ stock_data' = stock_data
           /\ logs' = logs]_vars

\* An add of a negative quantity with a log list has raised, with entries in
\* the map and in the log.
NegativeAddRefused ==
    /\ last.op = "add_item" /\ last.sink /\ last.qty.n < 0
    /\ last.exc = "ValueError"
    /\ stock_data # EmptyDict
    /\ logs # <<>>

\* The stock of demo_operations after its adds and removes.
DemoStock == [k \in {"apple", "banana", "grape"} |->
                 CASE k = "apple" -> 10 [] k = "banana" -> 2 [] OTHER -> 12]

\* C9: check_low_items(threshold) with an integer threshold >= 0 returns the
\* items stored with a quantity strictly below threshold, each once, and
\* leaves the stock map as it was; threshold 5 on the demo stock gives banana.
LowItemsAreBelowThreshold ==
    [][(last'.op = "check_low_items" /\ last'.qty.t = "int" /\ last'.qty.n >= 0)
        => LET below == {k \in DOMAIN stock_data : stock_data[k] < last'.qty.n}
               got == last'.items
           IN  /\ last'.exc = "" /\ last'.ret = "list"
               /\ {got[i] : i \in 1..Len(got)} = below
               /\ Len(got) = Cardinality(below)
               /\ stock_data' = stock_data
               /\ LowItems(DemoStock, 5) = {"banana"}]_vars

\* check_low_items(2) has returned an item while another holds exactly 2.
LowListed ==
    /\ last.op = "check_low_items" /\ last.qty.n = 2
    /\ Len(last.items) > 0
    /\ \E k \in DOMAIN stock_data : stock_data[k] = 2

\* C10: a successful add given a log list appends one entry for it at the
\* end of the list; every other call (a failed add, an add without a list,
\* remove, get_qty, check_low_items, load, save) leaves the list as it was.
LogIsAppendOnlyByAdd ==
    [][IF last'.op = "add_item" /\ last'.exc = "" /\ last'.sink
       THEN logs' = logs \o <<[item |-> last'.item.s, qty |-> last'.qty]>>
       ELSE logs' = logs]_vars

\* Two different adds are in the log, in call order, and a remove followed.
TwoAddsLogged ==
    /\ Len(logs) = 2
    /\ logs[1].qty = PyInt(1) /\ logs[2].qty = PyTrue
    /\ last.op = "remove_item" /\ last.ret = "True"

====
